---- MODULE Spec2Model ----
(***************************************************************************)
(* Model of src/bot.py: the EmailBot polling loop (EmailBot.run), the mail *)
(* provider seen through list / get / send / modify, content extraction    *)
(* and the reply-generation chain.                                         *)
(***************************************************************************)
EXTENDS Integers, Sequences, FiniteSets, TLC

(* ------------------------------ bounds --------------------------------- *)
\* number of messages in the mailbox
NumMsgs == 3
\* number of polls (iterations of `while True`) explored
MaxCycles == 2

(* --------------------------- program constants ------------------------- *)
\* body = ...[:500]
BodyCap == 500
\* return reply[:200]
ReplyCap == 200

Msgs == 1 .. NumMsgs
\* Python's None, where a function returns it in place of a record
None == [none |-> TRUE]

(* ------------------------------- text ---------------------------------- *)
\* Texts are sequences of one-character strings.
UpperCase == <<"A","B","C","D","E","F","G","H","I","J","K","L","M",
               "N","O","P","Q","R","S","T","U","V","W","X","Y","Z">>
LowerCase == <<"a","b","c","d","e","f","g","h","i","j","k","l","m",
               "n","o","p","q","r","s","t","u","v","w","x","y","z">>

\* str.lower() on one character
LowerChar(c) ==
    IF \E i \in 1 .. Len(UpperCase) : UpperCase[i] = c
    THEN LowerCase[CHOOSE i \in 1 .. Len(UpperCase) : UpperCase[i] = c]
    ELSE c

\* str.lower()
Lower(t) == [i \in 1 .. Len(t) |-> LowerChar(t[i])]

\* `word in text` : substring test
Contains(t, w) ==
    \E i \in 0 .. (Len(t) - Len(w)) :
        \A j \in 1 .. Len(w) : t[i + j] = w[j]

\* any(word in text for word in words)
AnyIn(t, words) == \E w \in words : Contains(t, w)

\* s[:n]
Truncate(s, n) == IF Len(s) <= n THEN s ELSE SubSeq(s, 1, n)

\* the characters matched by \s
WhiteSpace == {" ", "\n", "\t", "\r"}

\* re.sub(r'\s+', ' ', s) : every run of whitespace becomes one space
CollapseWs(s) ==
    LET marked == [i \in 1 .. Len(s) |->
                     [c |-> s[i],
                      inRun |-> i > 1 /\ s[i] \in WhiteSpace
                                      /\ s[i - 1] \in WhiteSpace]]
        RunStart(x) == ~x.inRun
        kept == SelectSeq(marked, RunStart)
    IN  [i \in 1 .. Len(kept) |->
           IF kept[i].c \in WhiteSpace THEN " " ELSE kept[i].c]

\* str.strip() : leading and trailing whitespace removed
RECURSIVE StripLeft(_)
StripLeft(s) ==
    IF s # <<>> /\ s[1] \in WhiteSpace THEN StripLeft(Tail(s)) ELSE s

RECURSIVE StripRight(_)
StripRight(s) ==
    IF s # <<>> /\ s[Len(s)] \in WhiteSpace
    THEN StripRight(SubSeq(s, 1, Len(s) - 1))
    ELSE s

Strip(s) == StripRight(StripLeft(s))

\* mutant: the cut made before the strip
NormalizeBody_CutFirst(body) == Strip(Truncate(CollapseWs(body), BodyCap))

\* re.sub(r'\s+', ' ', body).strip()[:500]
NormalizeBody(body) == Truncate(Strip(CollapseWs(body)), BodyCap)

(* ------------------------ rule-based replies --------------------------- *)
\* ['hello', 'hi', 'hey', 'greeting']
GreetingWords ==
    {<<"h","e","l","l","o">>,
     <<"h","i">>,
     <<"h","e","y">>,
     <<"g","r","e","e","t","i","n","g">>}

\* ['question', 'ask', 'help', 'support']
QuestionWords ==
    {<<"q","u","e","s","t","i","o","n">>,
     <<"a","s","k">>,
     <<"h","e","l","p">>,
     <<"s","u","p","p","o","r","t">>}

\* ['urgent', 'asap', 'important', 'emergency']
UrgentWords ==
    {<<"u","r","g","e","n","t">>,
     <<"a","s","a","p">>,
     <<"i","m","p","o","r","t","a","n","t">>,
     <<"e","m","e","r","g","e","n","c","y">>}

\* ['thank', 'thanks', 'appreciate', 'grateful']
ThanksWords ==
    {<<"t","h","a","n","k">>,
     <<"t","h","a","n","k","s">>,
     <<"a","p","p","r","e","c","i","a","t","e">>,
     <<"g","r","a","t","e","f","u","l">>}

\* ['meeting', 'schedule', 'appointment', 'calendar']
MeetingWords ==
    {<<"m","e","e","t","i","n","g">>,
     <<"s","c","h","e","d","u","l","e">>,
     <<"a","p","p","o","i","n","t","m","e","n","t">>,
     <<"c","a","l","e","n","d","a","r">>}

\* "Hello! Thank you for your message. I'll get back to you soon."
ReplyGreeting ==
    <<"H","e","l","l","o","!"," ","T","h","a","n","k"," ","y","o","u"," ",
      "f","o","r"," ","y","o","u","r"," ","m","e","s","s","a","g","e",".",
      " ","I","'","l","l"," ","g","e","t"," ","b","a","c","k"," ","t","o",
      " ","y","o","u"," ","s","o","o","n",".">>

\* "Thanks for your question. I'll look into this and respond properly."
ReplyQuestion ==
    <<"T","h","a","n","k","s"," ","f","o","r"," ","y","o","u","r"," ","q",
      "u","e","s","t","i","o","n","."," ","I","'","l","l"," ","l","o","o",
      "k"," ","i","n","t","o"," ","t","h","i","s"," ","a","n","d"," ","r",
      "e","s","p","o","n","d"," ","p","r","o","p","e","r","l","y",".">>

\* "I've received your urgent message and will prioritize it."
ReplyUrgent ==
    <<"I","'","v","e"," ","r","e","c","e","i","v","e","d"," ","y","o","u",
      "r"," ","u","r","g","e","n","t"," ","m","e","s","s","a","g","e"," ",
      "a","n","d"," ","w","i","l","l"," ","p","r","i","o","r","i","t","i",
      "z","e"," ","i","t",".">>

\* "You're welcome! I'm glad I could help."
ReplyThanks ==
    <<"Y","o","u","'","r","e"," ","w","e","l","c","o","m","e","!"," ","I",
      "'","m"," ","g","l","a","d"," ","I"," ","c","o","u","l","d"," ","h",
      "e","l","p",".">>

\* "I'll check my schedule and get back to you about the meeting."
ReplyMeeting ==
    <<"I","'","l","l"," ","c","h","e","c","k"," ","m","y"," ","s","c","h",
      "e","d","u","l","e"," ","a","n","d"," ","g","e","t"," ","b","a","c",
      "k"," ","t","o"," ","y","o","u"," ","a","b","o","u","t"," ","t","h",
      "e"," ","m","e","e","t","i","n","g",".">>

\* "Thank you for your email. I've received it and will respond soon."
ReplyDefault ==
    <<"T","h","a","n","k"," ","y","o","u"," ","f","o","r"," ","y","o","u",
      "r"," ","e","m","a","i","l","."," ","I","'","v","e"," ","r","e","c",
      "e","i","v","e","d"," ","i","t"," ","a","n","d"," ","w","i","l","l",
      " ","r","e","s","p","o","n","d"," ","s","o","o","n",".">>

\* text = (email_content['subject'] + ' ' + email_content['body']).lower()
SimpleReplyText(email_content) ==
    Lower(email_content.subject \o <<" ">> \o email_content.body)

\* mutant: the urgency list tested before the greeting list
generate_simple_reply_UrgentFirst(email_content) ==
    LET text == SimpleReplyText(email_content) IN
    IF AnyIn(text, UrgentWords) THEN ReplyUrgent
    ELSE IF AnyIn(text, GreetingWords) THEN ReplyGreeting
    ELSE IF AnyIn(text, QuestionWords) THEN ReplyQuestion
    ELSE IF AnyIn(text, ThanksWords) THEN ReplyThanks
    ELSE IF AnyIn(text, MeetingWords) THEN ReplyMeeting
    ELSE ReplyDefault

\* EmailBot.generate_simple_reply : the if / elif chain over the keyword lists
generate_simple_reply(email_content) ==
    LET text == SimpleReplyText(email_content) IN
    IF AnyIn(text, GreetingWords) THEN ReplyGreeting
    ELSE IF AnyIn(text, QuestionWords) THEN ReplyQuestion
    ELSE IF AnyIn(text, UrgentWords) THEN ReplyUrgent
    ELSE IF AnyIn(text, ThanksWords) THEN ReplyThanks
    ELSE IF AnyIn(text, MeetingWords) THEN ReplyMeeting
    ELSE ReplyDefault

(* -------------------------- generative reply --------------------------- *)
\* f"Email subject: ..."
PromptSubject ==
    <<"E","m","a","i","l"," ","s","u","b","j","e","c","t",":"," ">>

\* f"Email content: ..."
PromptContent ==
    <<"E","m","a","i","l"," ","c","o","n","t","e","n","t",":"," ">>

\* the last line of the prompt
PromptAsk ==
    <<"P","l","e","a","s","e"," ","w","r","i","t","e"," ","a"," ","s","h",
      "o","r","t",","," ","h","e","l","p","f","u","l"," ","r","e","p","l",
      "y"," ","t","o"," ","t","h","i","s"," ","e","m","a","i","l",":">>

\* a backend completion that does not echo the prompt
EchoFreeText ==
    <<"S","u","r","e",","," ","n","o","t","e","d","!"," ","M","o","r","e",
      " ","s","o","o","n",".">>

\* what a backend appends to the echoed prompt
Completion ==
    <<" ","G","o","t"," ","i","t","."," ","W","i","l","l"," ","r","e","p",
      "l","y","?">>

\* the prompt built by generate_ai_reply
Prompt(email_content) ==
    PromptSubject \o email_content.subject \o <<"\n">> \o
    PromptContent \o email_content.body \o <<"\n">> \o PromptAsk

\* str.startswith at position 1
StartsWith(t, w) ==
    Len(w) <= Len(t) /\ \A j \in 1 .. Len(w) : t[j] = w[j]

\* str.replace(old, '') : every non-overlapping occurrence removed, left to right
RECURSIVE RemoveAll(_, _)
RemoveAll(t, old) ==
    IF t = <<>> \/ old = <<>> THEN t
    ELSE IF StartsWith(t, old)
         THEN RemoveAll(SubSeq(t, Len(old) + 1, Len(t)), old)
         ELSE <<t[1]>> \o RemoveAll(Tail(t), old)

\* re.split(r'[.!?]', reply)[0] : the text before the first of . ! ?
RECURSIVE FirstSentence(_)
FirstSentence(t) ==
    IF t = <<>> \/ t[1] \in {".", "!", "?"} THEN <<>>
    ELSE <<t[1]>> \o FirstSentence(Tail(t))

\* what self.chat_pipeline(prompt, ...) can do: raise ("error"), return the
\* prompt followed by a completion ("echo"), return a text without the
\* prompt ("plain"); "unused" when generate_ai_reply is not called
BackendBehaviours == {"error", "echo", "plain"}
Backend(behaviour, prompt) ==
    IF behaviour = "echo" THEN [ok |-> TRUE, generated_text |-> prompt \o Completion]
    ELSE IF behaviour = "plain" THEN [ok |-> TRUE, generated_text |-> EchoFreeText]
    ELSE [ok |-> FALSE, generated_text |-> <<>>]

\* the try body of generate_ai_reply applied to response[0]['generated_text']
AiReplyText(prompt, generated_text) ==
    Truncate(FirstSentence(Strip(RemoveAll(generated_text, prompt))), ReplyCap)

\* mutant: the except branch returns an empty reply instead of falling back
generate_ai_reply_NoFallback(email_content, behaviour) ==
    LET prompt == Prompt(email_content)
        response == Backend(behaviour, prompt)
    IN  IF ~response.ok
        THEN <<>>
        ELSE AiReplyText(prompt, response.generated_text)

\* EmailBot.generate_ai_reply : any exception falls back to the rule-based reply
generate_ai_reply(email_content, behaviour) ==
    LET prompt == Prompt(email_content)
        response == Backend(behaviour, prompt)
    IN  IF ~response.ok
        THEN generate_simple_reply(email_content)
        ELSE AiReplyText(prompt, response.generated_text)

\* EmailBot.generate_reply : `if self.chat_pipeline:`
generate_reply(pipeline, email_content, behaviour) ==
    IF pipeline
    THEN generate_ai_reply(email_content, behaviour)
    ELSE generate_simple_reply(email_content)

(* ---------------------- mailbox and extraction -------------------------- *)
\* header values and body texts of the mailbox's messages
SubjectHi ==
    <<"H","i"," ","t","h","e","r","e">>

SubjectInvoice ==
    <<"I","n","v","o","i","c","e">>

SubjectOld ==
    <<"U","R","G","E","N","T">>

BodyHelp ==
    <<" ","n","e","e","d"," "," ","u","r","g","e","n","t","\n","\t","h","e",
      "l","p"," ">>

BodyThanks ==
    <<"T","h","a","n","k","s"," ","a"," ","l","o","t",".","\n","S","e","e",
      " ","y","o","u">>

BodyMeeting ==
    <<"m","e","e","t","i","n","g"," ","a","t"," ","5","?">>

BodyHtml ==
    <<"<","p",">","h","e","y","<","/","p",">">>

\* body data as the provider sends it: base64url text, decodable or not
B64(text) == [enc |-> "base64url", bytes |-> text]
BadB64 == [enc |-> "malformed", bytes |-> <<>>]

\* base64.urlsafe_b64decode(body_data + '===').decode('utf-8', errors='ignore')
DecodeError == [ok |-> FALSE, text |-> <<>>]
Decode(body_data) ==
    IF body_data.enc = "base64url"
    THEN [ok |-> TRUE, text |-> body_data.bytes]
    ELSE DecodeError

\* the payloads the provider holds (messages().get(format='full')['payload'])
Payloads ==
    << [headers |-> << [name |-> "From", value |-> "ann@example.org"],
                       [name |-> "Subject", value |-> SubjectHi] >>,
        body |-> [data |-> B64(BodyHelp)]],
       [headers |-> << [name |-> "Subject", value |-> SubjectOld],
                       [name |-> "From", value |-> "bob@example.org"],
                       [name |-> "Subject", value |-> SubjectInvoice] >>,
        parts |-> << [mimeType |-> "text/html", body |-> [data |-> B64(BodyHtml)]],
                     [mimeType |-> "text/plain", body |-> [size |-> 0]],
                     [mimeType |-> "text/plain", body |-> [data |-> B64(BodyThanks)]],
                     [mimeType |-> "text/plain", body |-> [data |-> B64(BodyMeeting)]] >>,
        body |-> [size |-> 0]],
       [headers |-> << [name |-> "To", value |-> "me@example.org"] >>,
        parts |-> << [mimeType |-> "text/html", body |-> [data |-> B64(BodyHtml)]] >>,
        body |-> [data |-> B64(BodyMeeting)]],
       [headers |-> << [name |-> "From", value |-> "eve@example.org"] >>,
        body |-> [data |-> BadB64]] >>

\* the message with id m as messages().get returns it
RawMessage(m) ==
    [id |-> m, threadId |-> 100 + m,
     payload |-> Payloads[((m - 1) % Len(Payloads)) + 1]]

\* the `for header in headers` loop for one header name: every match assigns
RECURSIVE HeaderValue(_, _, _)
HeaderValue(headers, name, acc) ==
    IF headers = <<>> THEN acc
    ELSE HeaderValue(Tail(headers), name,
                     IF Head(headers).name = name THEN Head(headers).value ELSE acc)

\* the condition of line 112 on one part
PartQualifies(part) ==
    /\ part.mimeType = "text/plain"
    /\ "body" \in DOMAIN part
    /\ "data" \in DOMAIN part.body

\* the `for part in payload['parts']` loop: first qualifying part, then break
RECURSIVE FirstPlainPart(_)
FirstPlainPart(parts) ==
    IF parts = <<>> THEN [ok |-> TRUE, text |-> <<>>]
    ELSE IF PartQualifies(Head(parts)) THEN Decode(Head(parts).body.data)
    ELSE FirstPlainPart(Tail(parts))

\* mutant: the payload's own body used when no part qualifies
SelectBody_Fallback(payload) ==
    IF "parts" \in DOMAIN payload
         /\ \E i \in DOMAIN payload.parts : PartQualifies(payload.parts[i])
    THEN FirstPlainPart(payload.parts)
    ELSE IF "body" \in DOMAIN payload /\ "data" \in DOMAIN payload.body
         THEN Decode(payload.body.data)
    ELSE [ok |-> TRUE, text |-> <<>>]

\* lines 110-118 : the decoded body before normalisation
SelectBody(payload) ==
    IF "parts" \in DOMAIN payload THEN FirstPlainPart(payload.parts)
    ELSE IF "body" \in DOMAIN payload /\ "data" \in DOMAIN payload.body
         THEN Decode(payload.body.data)
    ELSE [ok |-> TRUE, text |-> <<>>]

\* headers = payload.get('headers', [])
PayloadHeaders(payload) ==
    IF "headers" \in DOMAIN payload THEN payload.headers ELSE <<>>

\* EmailBot.get_email_content on a fetched message: None when anything raises
ExtractContent(message) ==
    LET payload == message.payload
        headers == PayloadHeaders(payload)
        decoded == SelectBody(payload)
    IN  IF ~decoded.ok THEN None
        ELSE [subject    |-> HeaderValue(headers, "Subject", <<>>),
              from       |-> HeaderValue(headers, "From", ""),
              body       |-> NormalizeBody(decoded.text),
              thread_id  |-> message.threadId,
              message_id |-> message.id]

\* what get_email_content extracts from each message of the mailbox
MailboxContent == [m \in Msgs |-> ExtractContent(RawMessage(m))]

\* EmailBot.get_email_content : fetched is FALSE when messages().get raises
get_email_content(message_id, fetched) ==
    IF fetched THEN MailboxContent[message_id] ELSE None

(* ------------------------------ state ---------------------------------- *)
VARIABLES
    unread,         \* provider: the ids that carry the UNREAD label
    chat_pipeline,  \* self.chat_pipeline is set (TRUE) or None (FALSE)
    pc,             \* where EmailBot.run stands
    cycle,          \* iterations of `while True` started so far
    sleeps,         \* time.sleep calls that have returned
    messages,       \* run's local `messages` : ids as listed this cycle
    idx,            \* position of the for loop in messages
    email_content,  \* run's local `email_content`
    reply,          \* run's local `reply`
    exit,           \* why run returned: "no", "KeyboardInterrupt", "Exception"
    stoppedAt,      \* the pc at which KeyboardInterrupt was raised
    listed,         \* outcome of this cycle's messages().list call
    calls,          \* this cycle's get / generate / send / modify calls, in order
    prev,           \* per id, how the previous cycle ended for it
    last,           \* per id, how the latest earlier cycle that handled it ended
    backend,        \* how the backend behaved on the last generate_reply call
    sends,          \* per id, number of successful messages().send calls
    acked,          \* ids whose messages().modify call has succeeded
    replied,        \* ids with a messages().send call that has succeeded
    sent_message,   \* the request of the last messages().send call
    markFailed,     \* ids with a messages().modify call that raised
    recording,      \* the history (counters, logs, outcomes) is being kept
    input           \* the argument drawn for a function applied on its own

vars == <<unread, chat_pipeline, pc, cycle, sleeps, messages, idx,
          email_content, reply, exit, stoppedAt, listed, calls, prev, last,
          backend, sends, acked, replied, sent_message, markFailed, recording,
          input>>

Running == {"poll", "fetch", "generate", "send", "mark", "sleep"}
InCycle == {"fetch", "generate", "send", "mark", "sleep"}

(* ------------------------- the log of a cycle -------------------------- *)
Call(op, m, ok) == [op |-> op, id |-> m, ok |-> ok]
Has(log, op, m, ok) ==
    \E i \in 1 .. Len(log) : log[i].id = m /\ log[i].op = op /\ log[i].ok = ok
Called(log, op, m) ==
    \E i \in 1 .. Len(log) : log[i].id = m /\ log[i].op = op

\* the last call made for m in a log, None when there is none
RECURSIVE LastCall(_, _, _)
LastCall(log, m, i) ==
    IF i = 0 THEN None
    ELSE IF log[i].id = m THEN log[i]
    ELSE LastCall(log, m, i - 1)

\* how far the processing of m got in a cycle
Outcome(log, m) ==
    LET c == LastCall(log, m, Len(log)) IN
    IF c = None THEN "none"
    ELSE IF c.op = "get" THEN (IF c.ok THEN "extracted" ELSE "extract_failed")
    ELSE IF c.op = "generate" THEN "extracted"
    ELSE IF c.op = "send" THEN (IF c.ok THEN "sent" ELSE "send_failed")
    ELSE IF Has(log, "send", m, FALSE) THEN "send_failed"
    ELSE IF c.ok THEN "sent_acked" ELSE "sent_unacked"

Outcomes(log) == [m \in Msgs |-> Outcome(log, m)]
Range(s) == {s[i] : i \in 1 .. Len(s)}

(* --------------------------- provider calls ---------------------------- *)
\* a set of ids as a list in ascending order
RECURSIVE SortedSeq(_)
SortedSeq(S) ==
    IF S = {} THEN <<>>
    ELSE LET m == CHOOSE x \in S : \A y \in S : x <= y
         IN  <<m>> \o SortedSeq(S \ {m})

\* mutant: the query without its is:unread filter
ListUnread_NoFilter(labelled) == SortedSeq(Msgs)

\* messages().list(userId='me', q='is:unread') : the ids labelled UNREAD
ListUnread(labelled) == SortedSeq(labelled)

\* EmailBot.get_unreplied_emails : HttpError is caught and gives [],
\* any other exception leaves the function
get_unreplied_emails(labelled, result) ==
    IF result = "ok" THEN [raised |-> FALSE, value |-> ListUnread(labelled)]
    ELSE IF result = "HttpError" THEN [raised |-> FALSE, value |-> <<>>]
    ELSE [raised |-> TRUE, value |-> <<>>]

\* mutant: the except branch of send_reply returns True as well
send_reply_AlwaysTrue(ok) == [raised |-> FALSE, value |-> TRUE]

\* EmailBot.send_reply : True when messages().send returned, False when
\* anything raised
send_reply(ok) == [raised |-> FALSE, value |-> ok]

\* mutant: the handler of mark_as_replied missing, a failed modify raises
mark_as_replied_Uncaught(labelled, message_id, ok) ==
    [raised |-> ~ok,
     unread |-> IF ok THEN labelled \ {message_id} ELSE labelled]

\* EmailBot.mark_as_replied : messages().modify(removeLabelIds=['UNREAD']),
\* every exception caught
mark_as_replied(labelled, message_id, ok) ==
    [raised |-> FALSE,
     unread |-> IF ok THEN labelled \ {message_id} ELSE labelled]

\* mutant: mark_as_replied called whatever send_reply returned
ShouldMark_Always(sent) == TRUE

\* mutant: the test of line 234 inverted
ShouldMark_Inverted(sent) == ~sent

\* line 238 : mark_as_replied is called only `if self.send_reply(...)`
ShouldMark(sent) == sent

\* line 231 : `if email_content:`
Extracted(content) == content # None

\* mutant: the loop skips the message after the one it handled
NextIndex_SkipOne(i) == i + 2

\* the for loop moving on after the body ran for position i
NextIndex(i) == i + 1

\* mutant: a failed extraction ends the batch (break)
SkipIndex_Break(msgs, i) == Len(msgs) + 1

\* the for loop moving on when `if email_content:` was false at position i
SkipIndex(msgs, i) == i + 1

\* where run stands once the for loop is at position i of msgs:
\* the next message, or time.sleep after the last one
LoopPc(msgs, i) == IF i <= Len(msgs) THEN "fetch" ELSE "sleep"

\* mutant: a get that takes the UNREAD label off the message it returns
LabelsAfterGet_MarksRead(labelled, message_id) == labelled \ {message_id}

\* messages().get(userId='me', id=message_id, format='full') : reading a
\* message changes no label, whether the call returns or raises
LabelsAfterGet(labelled, message_id) == labelled

\* generate_reply : the backend is called iff self.chat_pipeline is set;
\* the ways the call can go
BackendCalls(pipeline) == IF pipeline THEN BackendBehaviours ELSE {"unused"}

\* mutant: the except branch of generate_ai_reply drops the pipeline
PipelineAfter_DropOnError(pipeline, behaviour) ==
    IF behaviour = "error" THEN FALSE ELSE pipeline

\* self.chat_pipeline after a generate_reply call : nothing in
\* generate_reply, generate_ai_reply or run assigns it
PipelineAfter(pipeline, behaviour) == pipeline

\* mutant: the reply threaded on the message id instead of the thread id
send_request_WrongThread(message_id, thread_id, reply_text, to_email) ==
    [for_id |-> message_id, threadId |-> message_id, To |-> to_email,
     Subject |-> "Re: Auto-reply", text |-> reply_text]

\* the request send_reply builds: MIMEText(reply_text) with To and the
\* fixed Subject, sent with threadId; for_id is the message run is at
send_request(message_id, thread_id, reply_text, to_email) ==
    [for_id |-> message_id, threadId |-> thread_id, To |-> to_email,
     Subject |-> "Re: Auto-reply", text |-> reply_text]

\* a variable of the history takes its new value while recording
Record(old, new) == IF recording THEN new ELSE old

\* a counter of the history
Tick(n) == Record(n, n + 1)

\* a call added to the log of the cycle
Log(log, call) == Record(log, Append(log, call))

(* ------------------------------ actions -------------------------------- *)
Init ==
    /\ unread = Msgs
    /\ chat_pipeline \in BOOLEAN
    /\ pc = "poll"
    /\ cycle = 0
    /\ sleeps = 0
    /\ messages = <<>>
    /\ idx = 1
    /\ email_content = None
    /\ reply = <<>>
    /\ exit = "no"
    /\ stoppedAt = "none"
    /\ listed = "none"
    /\ calls = <<>>
    /\ prev = [m \in Msgs |-> "none"]
    /\ last = [m \in Msgs |-> "none"]
    /\ backend = "unused"
    /\ sends = [m \in Msgs |-> 0]
    /\ acked = {}
    /\ replied = {}
    /\ sent_message = None
    /\ markFailed = {}
    /\ recording = TRUE
    /\ input = None

\* an exception that nothing below run catches and that is not
\* KeyboardInterrupt: run ends with it
Raise ==
    /\ pc' = "exited"
    /\ exit' = "Exception"

\* messages = self.get_unreplied_emails(), then the for loop starts
Poll ==
    /\ pc = "poll"
    /\ recording => cycle < MaxCycles
    /\ cycle' = Tick(cycle)
    /\ \E result \in {"ok", "HttpError", "OtherError"} :
         LET r == get_unreplied_emails(unread, result)
         IN  /\ listed' = result
             /\ IF r.raised
                THEN /\ Raise
                     /\ UNCHANGED <<messages, idx>>
                ELSE /\ messages' = r.value
                     /\ idx' = 1
                     /\ pc' = LoopPc(messages', 1)
                     /\ exit' = exit
    /\ prev' = Record(prev, Outcomes(calls))
    /\ last' = Record(last, [m \in Msgs |->
                                IF Outcome(calls, m) = "none" THEN last[m]
                                ELSE Outcome(calls, m)])
    /\ calls' = Record(calls, <<>>)
    /\ UNCHANGED <<unread, chat_pipeline, sleeps, email_content, reply,
                   stoppedAt, backend, sends, acked, sent_message, markFailed,
                   replied, recording, input>>

\* email_content = self.get_email_content(message['id']); if email_content:
Fetch ==
    /\ pc = "fetch"
    /\ \E fetched \in BOOLEAN :
         LET m == messages[idx]
             c == get_email_content(m, fetched)
         IN  /\ email_content' = c
             /\ unread' = LabelsAfterGet(unread, m)
             /\ calls' = Log(calls, Call("get", m, c # None))
             /\ IF Extracted(c)
                THEN /\ pc' = "generate"
                     /\ idx' = idx
                ELSE /\ idx' = SkipIndex(messages, idx)
                     /\ pc' = LoopPc(messages, idx')
    /\ UNCHANGED <<chat_pipeline, cycle, sleeps, messages, reply, exit,
                   stoppedAt, listed, prev, last, backend, sends, acked,
                   sent_message, markFailed, replied, recording, input>>

\* reply = self.generate_reply(email_content)
Generate ==
    /\ pc = "generate"
    /\ \E b \in BackendCalls(chat_pipeline) :
         /\ backend' = b
         /\ reply' = generate_reply(chat_pipeline, email_content, b)
         /\ chat_pipeline' = PipelineAfter(chat_pipeline, b)
         /\ calls' = Log(calls, Call("generate", messages[idx], TRUE))
    /\ pc' = "send"
    /\ UNCHANGED <<unread, cycle, sleeps, messages, idx, email_content, exit,
                   stoppedAt, listed, prev, last, sends, acked, sent_message,
                   markFailed, replied, recording, input>>

\* if self.send_reply(thread_id, reply, from): ...
Send ==
    /\ pc = "send"
    /\ \E ok \in BOOLEAN :
         LET m == messages[idx]
             r == send_reply(ok)
         IN  /\ sends' = [sends EXCEPT ![m] = IF ok THEN Tick(@) ELSE @]
             /\ replied' = IF ok THEN replied \cup {m} ELSE replied
             /\ sent_message' = send_request(m, email_content.thread_id, reply,
                                     email_content.from)
             /\ calls' = Log(calls, Call("send", m, ok))
             /\ IF r.raised
                THEN Raise /\ idx' = idx
                ELSE /\ exit' = exit
                     /\ IF ShouldMark(r.value)
                        THEN /\ pc' = "mark"
                             /\ idx' = idx
                        ELSE /\ idx' = NextIndex(idx)
                             /\ pc' = LoopPc(messages, idx')
    /\ UNCHANGED <<unread, chat_pipeline, cycle, sleeps, messages,
                   email_content, reply, stoppedAt, listed, prev, last,
                   backend, acked, markFailed, recording, input>>

\* self.mark_as_replied(message['id'])
Mark ==
    /\ pc = "mark"
    /\ \E ok \in BOOLEAN :
         LET m == messages[idx]
             r == mark_as_replied(unread, m, ok)
         IN  /\ unread' = r.unread
             /\ acked' = IF ok THEN acked \cup {m} ELSE acked
             /\ markFailed' = IF ok THEN markFailed
                              ELSE Record(markFailed, markFailed \cup {m})
             /\ calls' = Log(calls, Call("modify", m, ok))
             /\ IF r.raised
                THEN Raise /\ idx' = idx
                ELSE /\ exit' = exit
                     /\ idx' = NextIndex(idx)
                     /\ pc' = LoopPc(messages, idx')
    /\ UNCHANGED <<chat_pipeline, cycle, sleeps, messages, email_content,
                   reply, stoppedAt, listed, prev, last, backend, sends, sent_message,
                   replied, recording, input>>

\* time.sleep(self.poll_interval), then the next iteration of `while True`
Sleep ==
    /\ pc = "sleep"
    /\ pc' = "poll"
    /\ sleeps' = Tick(sleeps)
    /\ UNCHANGED <<unread, chat_pipeline, cycle, messages, idx, email_content,
                   reply, exit, stoppedAt, listed, calls, prev, last, backend,
                   sends, acked, sent_message, markFailed, replied, recording, input>>

\* Ctrl+C : KeyboardInterrupt is raised wherever run stands; no handler
\* below run catches it (they catch Exception), run's own handler returns
Interrupt ==
    /\ pc \in Running
    /\ pc' = "exited"
    /\ exit' = "KeyboardInterrupt"
    /\ stoppedAt' = pc
    /\ UNCHANGED <<unread, chat_pipeline, cycle, sleeps, messages, idx,
                   email_content, reply, listed, calls, prev, last, backend,
                   sends, acked, sent_message, markFailed, replied, recording, input>>

Next == Poll \/ Fetch \/ Generate \/ Send \/ Mark \/ Sleep \/ Interrupt

Spec == Init /\ [][Next]_vars

(* ------------------------------ claims --------------------------------- *)
\* the outcomes in which send_reply ran and, if it returned True,
\* mark_as_replied ran too
Finished == {"send_failed", "sent_acked", "sent_unacked"}

\* C1 (as stated): once the processing of a message has finished in a cycle,
\* the message is acknowledged (no longer unread) if and only if its reply
\* was sent successfully.
C1_AckIffSent ==
    \A m \in Msgs :
        Outcome(calls, m) \in Finished =>
            ((m \notin unread) <=> Has(calls, "send", m, TRUE))

\* C1 (amended): once the processing of a message has finished in a cycle,
\* the message is acknowledged if and only if its reply was sent
\* successfully and the modify call that followed succeeded; a message
\* whose send failed is never acknowledged.
C1_AckIffSentAndMarked ==
    \A m \in Msgs :
        Outcome(calls, m) \in Finished =>
            /\ (m \notin unread) <=>
                   (Has(calls, "send", m, TRUE) /\ Has(calls, "modify", m, TRUE))
            /\ Has(calls, "send", m, FALSE) => m \in unread

\* three messages finished in one cycle: one sent and acknowledged, one sent
\* with a failed modify, one whose send failed
C1_Witness ==
    \E a, b, c \in Msgs :
        /\ Outcome(calls, a) = "sent_acked" /\ a \notin unread
        /\ Outcome(calls, b) = "sent_unacked" /\ b \in unread
        /\ Outcome(calls, c) = "send_failed" /\ c \in unread

\* C2 (as stated): a message whose send fails in a cycle gets no modify call
\* in that cycle, is still unread when the cycle ends, is part of the next
\* cycle's list result and is processed again in the next cycle.
C2_RetriedNextCycle ==
    \A m \in Msgs :
        /\ Has(calls, "send", m, FALSE) =>
               (~Called(calls, "modify", m) /\ m \in unread)
        /\ (prev[m] = "send_failed" /\ pc \in InCycle) => m \in Range(messages)
        /\ (prev[m] = "send_failed" /\ pc = "sleep") => Called(calls, "get", m)

\* C2 (amended): a message whose send fails in a cycle gets no modify call
\* in that cycle and is still unread when the cycle ends; it is part of the
\* result of the next messages().list call that succeeds, and every message
\* of that result has been processed again when that cycle reaches its sleep.
C2_RetriedNextListing ==
    \A m \in Msgs :
        /\ Has(calls, "send", m, FALSE) =>
               (~Called(calls, "modify", m) /\ m \in unread)
        /\ (last[m] = "send_failed" /\ Outcome(calls, m) = "none") => m \in unread
        /\ (last[m] = "send_failed" /\ pc \in InCycle /\ listed = "ok") =>
               m \in Range(messages)
        /\ (last[m] = "send_failed" /\ pc = "sleep" /\ listed = "ok") =>
               Called(calls, "get", m)

\* a message whose send failed in the first cycle, with no modify call made
\* for it, has been listed again by the second cycle and replied to
C2_Witness ==
    \E m \in Msgs :
        /\ last[m] = "send_failed" /\ sends[m] = 1
        /\ listed = "ok" /\ pc = "sleep"
        /\ Has(calls, "send", m, TRUE)

\* C3: once the modify call has succeeded for a message, no later list
\* result holds it, no later get, generate, send or modify call is made for
\* it, and its count of successful sends no longer grows.
C3_AckedLeavesScope ==
    [][\A m \in acked :
          /\ sends'[m] = sends[m]
          /\ (messages' # messages => m \notin Range(messages'))
          /\ (Len(calls') > Len(calls) => calls'[Len(calls')].id # m)
          /\ m \in acked' /\ m \notin unread']_vars

\* a message acknowledged in an earlier cycle, and a later cycle that listed
\* and handled another message
C3_Witness ==
    \E m \in acked :
        /\ Outcome(calls, m) = "none" /\ last[m] = "sent_acked"
        /\ listed = "ok" /\ calls # <<>> /\ m \notin Range(messages)

\* C4 (as stated): when the modify call after a successful send fails, no
\* error leaves mark_as_replied, the batch continues, the message is sent
\* and not acknowledged and stays unread, and the next cycle lists it and
\* sends a reply for it again.
C4_ReSentNextCycle ==
    \A m \in Msgs :
        /\ Has(calls, "modify", m, FALSE) =>
               /\ Has(calls, "send", m, TRUE) /\ m \in unread
               /\ exit # "Exception"
               /\ pc = "sleep" => \A k \in Range(messages) : Called(calls, "get", k)
        /\ (prev[m] = "sent_unacked" /\ pc \in InCycle) => m \in Range(messages)
        /\ (prev[m] = "sent_unacked" /\ pc = "sleep") => Has(calls, "send", m, TRUE)

\* C4 (amended): when the modify call after a successful send fails, no
\* error leaves mark_as_replied, the batch continues, the message is sent
\* and not acknowledged and stays unread; the next list call that succeeds
\* returns it again, and when that cycle's send for it succeeds the message
\* has been replied to twice.
C4_ReSentNextListing ==
    \A m \in Msgs :
        /\ Has(calls, "modify", m, FALSE) =>
               /\ Has(calls, "send", m, TRUE) /\ m \in unread
               /\ exit # "Exception"
               /\ pc = "sleep" => \A k \in Range(messages) : Called(calls, "get", k)
        /\ (last[m] = "sent_unacked" /\ Outcome(calls, m) = "none") => m \in unread
        /\ (last[m] = "sent_unacked" /\ pc \in InCycle /\ listed = "ok") =>
               m \in Range(messages)
        /\ (last[m] = "sent_unacked" /\ pc = "sleep" /\ listed = "ok") =>
               Called(calls, "get", m)
        /\ (last[m] = "sent_unacked" /\ Has(calls, "send", m, TRUE)) => sends[m] >= 2

\* the modify call failed for the first message of a batch, the batch went
\* on to the next message, and a later cycle sent a second reply
C4_Witness ==
    \E m, k \in Msgs :
        /\ m # k /\ last[k] = "sent_unacked" /\ last[m] = "sent_unacked"
        /\ Has(calls, "send", m, TRUE) /\ sends[m] = 2

\* C5 (as stated): run exits only through cancellation; no failure of a
\* list, get, generate, send or modify call makes it exit.
C5_ExitsOnlyOnCancel ==
    pc = "exited" => exit = "KeyboardInterrupt"

\* C6 (as stated): a message being processed when cancellation arrives is
\* completed before run exits; run never stops in a state where a reply for
\* a message has been sent and its modify call has not been attempted.
C6_NoStopMidMessage ==
    pc = "exited" => \A m \in Msgs : Outcome(calls, m) # "sent"

\* C7: when get_email_content returns None for a message, no reply is
\* generated or sent and no modify call is issued for it in that cycle, and
\* every other message of the batch has been handled when the cycle reaches
\* its sleep.
C7_BatchResilience ==
    /\ \A m \in Msgs :
           Has(calls, "get", m, FALSE) =>
               /\ ~Called(calls, "generate", m)
               /\ ~Called(calls, "send", m)
               /\ ~Called(calls, "modify", m)
    /\ (pc = "sleep" /\ listed = "ok") =>
           \A i \in 1 .. Len(messages) :
               /\ Called(calls, "get", messages[i])
               /\ Has(calls, "get", messages[i], TRUE) =>
                      Called(calls, "send", messages[i])

\* a batch of three whose 2nd message failed extraction: the 1st and the 3rd
\* were replied to
C7_Witness ==
    /\ pc = "sleep" /\ Len(messages) = 3
    /\ Has(calls, "get", messages[2], FALSE)
    /\ Has(calls, "send", messages[1], TRUE)
    /\ Has(calls, "send", messages[3], TRUE)

\* C8 (as stated): when the list call fails with a transport error, the
\* cycle has zero messages: no get, send or modify call, then the sleep as
\* for an empty result, then the next poll.
C8_ListFailureIsEmptyCycle ==
    listed \in {"HttpError", "OtherError"} =>
        /\ calls = <<>>
        /\ pc \in {"sleep", "poll"} \/ exit = "KeyboardInterrupt"

\* the ids of the get calls of a log, in order
RECURSIVE GetIds(_)
GetIds(log) ==
    IF log = <<>> THEN <<>>
    ELSE IF Head(log).op = "get" THEN <<Head(log).id>> \o GetIds(Tail(log))
    ELSE GetIds(Tail(log))

StepRank(op) ==
    IF op = "get" THEN 1 ELSE IF op = "generate" THEN 2
    ELSE IF op = "send" THEN 3 ELSE 4
Done == {"extract_failed", "send_failed", "sent_acked", "sent_unacked"}

\* C9: within a cycle the messages of the list result are handled one at a
\* time, each once, in list order, all steps of one message before any step
\* of the next; the sleep comes only after the whole batch, and every list
\* call but the first follows a sleep.
C9_Sequential ==
    LET gets == GetIds(calls) IN
    /\ gets = SubSeq(messages, 1, Len(gets))
    /\ \A i \in 1 .. Len(calls) - 1 :
           IF calls[i].id = calls[i + 1].id
           THEN StepRank(calls[i].op) < StepRank(calls[i + 1].op)
           ELSE /\ calls[i + 1].op = "get"
                /\ Outcome(calls, calls[i].id) \in Done
    /\ calls # <<>> => calls[1].op = "get"
    /\ pc = "sleep" =>
           /\ Len(gets) = Len(messages)
           /\ calls # <<>> => Outcome(calls, calls[Len(calls)].id) \in Done
    /\ pc = "fetch" =>
           /\ idx = Len(gets) + 1 /\ idx <= Len(messages)
           /\ calls # <<>> => Outcome(calls, calls[Len(calls)].id) \in Done
    /\ pc \in {"generate", "send", "mark"} =>
           /\ idx = Len(gets) /\ calls[Len(calls)].id = messages[idx]
    /\ pc = "poll" => sleeps = cycle
    /\ pc \in InCycle => sleeps = cycle - 1

\* a batch of three fully drained, every step of every message taken, the
\* second cycle about to sleep
C9_Witness ==
    /\ pc = "sleep" /\ cycle = 2 /\ Len(messages) = 3 /\ Len(calls) = 12

(* ------------------- generate_reply as a function ---------------------- *)
\* further subjects and bodies for generate_reply
SubjectThanks ==
    <<"T","H","A","N","K","S"," ","f","o","r"," ","t","h","e"," ","h","e",
      "l","p">>
BodyAsap ==
    <<"C","a","l","l"," ","m","e"," ","A","S","A","P","."," ","I","t"," ",
      "i","s"," ","i","m","p","o","r","t","a","n","t","!">>
BodyPlain ==
    <<"S","e","e"," ","a","t","t","a","c","h","e","d"," ","f","i","l","e">>
SubjectHelloUrgent ==
    <<"h","e","l","l","o",","," ","n","e","e","d"," ","u","r","g","e","n","t",
      " ","h","e","l","p">>
SubjectThanksMeeting ==
    <<"T","h","a","n","k","s",","," ","m","e","e","t","i","n","g"," ","a","t",
      " ","t","w","o">>

ReplySubjects ==
    {<<>>, SubjectHi, SubjectInvoice, SubjectOld, SubjectThanks,
     SubjectHelloUrgent, SubjectThanksMeeting}
ReplyBodies ==
    {<<>>, NormalizeBody(BodyHelp), NormalizeBody(BodyThanks),
     NormalizeBody(BodyMeeting), NormalizeBody(BodyAsap), NormalizeBody(BodyPlain)}

\* well-formed EmailContent records
ReplyInputs ==
    [subject : ReplySubjects, from : {"ann@example.org"}, body : ReplyBodies,
     thread_id : {101}, message_id : {1}]

InitReply ==
    /\ email_content \in ReplyInputs
    /\ chat_pipeline \in BOOLEAN
    /\ pc = "reply_input"
    /\ unread = Msgs
    /\ cycle = 0
    /\ sleeps = 0
    /\ messages = <<>>
    /\ idx = 1
    /\ reply = <<>>
    /\ exit = "no"
    /\ stoppedAt = "none"
    /\ listed = "none"
    /\ calls = <<>>
    /\ prev = [m \in Msgs |-> "none"]
    /\ last = [m \in Msgs |-> "none"]
    /\ backend = "unused"
    /\ sends = [m \in Msgs |-> 0]
    /\ acked = {}
    /\ replied = {}
    /\ sent_message = None
    /\ markFailed = {}
    /\ recording = TRUE
    /\ input = None

\* reply = self.generate_reply(email_content) on the drawn content
ApplyGenerateReply ==
    /\ pc = "reply_input"
    /\ \E b \in BackendCalls(chat_pipeline) :
         /\ backend' = b
         /\ reply' = generate_reply(chat_pipeline, email_content, b)
    /\ pc' = "reply_done"
    /\ UNCHANGED <<unread, chat_pipeline, cycle, sleeps, messages, idx,
                   email_content, exit, stoppedAt, listed, calls, prev, last,
                   sends, acked, sent_message, markFailed, replied, recording, input>>

NextReply == ApplyGenerateReply

SpecReply == InitReply /\ [][NextReply]_vars

\* the first sentence of Completion
EchoReply ==
    <<"G","o","t"," ","i","t">>
\* the first sentence of EchoFreeText
PlainReply ==
    <<"S","u","r","e",","," ","n","o","t","e","d">>

\* C10: generate_reply returns a text for every well-formed content, with
\* the capability absent, working or failing; when the backend call fails
\* (and when there is no backend) the text is the rule-based reply for the
\* same content.
C10_FallbackTotality ==
    pc = "reply_done" =>
        /\ DOMAIN reply = 1 .. Len(reply)
        /\ Len(reply) <= ReplyCap
        /\ (chat_pipeline /\ backend = "error") =>
               (reply = generate_simple_reply(email_content) /\ reply # <<>>)
        /\ ~chat_pipeline => reply = generate_simple_reply(email_content)
        /\ (chat_pipeline /\ backend = "echo") => reply = EchoReply
        /\ (chat_pipeline /\ backend = "plain") => reply = PlainReply

\* the backend failed on a content with an urgency keyword and the reply is
\* the rule-based one for it
C10_Witness ==
    /\ pc = "reply_done" /\ chat_pipeline /\ backend = "error"
    /\ email_content.subject = <<>> /\ email_content.body = NormalizeBody(BodyAsap)
    /\ reply = ReplyUrgent

(* ------------------- further properties of run ------------------------- *)
\* C11: whether the bot has a generative backend is fixed at construction:
\* no step changes self.chat_pipeline; without a pipeline no generate_reply
\* call reaches a backend; with one, every generate_reply call goes to the
\* backend, also after a call on which the backend failed.
C11_CapabilityFixed ==
    [][/\ chat_pipeline' = chat_pipeline
       /\ ~chat_pipeline => backend' = "unused"
       /\ (chat_pipeline /\ pc = "generate" /\ pc' # "exited") =>
              backend' \in BackendBehaviours]_vars

\* the backend failed on one message, whose reply was the rule-based one,
\* and has answered for a later message
C11_Witness ==
    /\ chat_pipeline /\ pc = "send" /\ backend \in {"echo", "plain"}
    /\ sent_message # None
    /\ sent_message.for_id # messages[idx]
    /\ sent_message.text =
           generate_simple_reply(ExtractContent(RawMessage(sent_message.for_id)))

\* C16: every request handed to messages().send while a message m is
\* processed carries m's own data: the recipient is the From value
\* extracted from m, the thread is m's threadId, which no other message of
\* the mailbox has, the text is the reply generate_reply gave for m's
\* content, the subject is the fixed marker. (Stated where the send call is
\* the latest call.)
C16_SendCarriesOwnData ==
    (calls # <<>> /\ calls[Len(calls)].op = "send") =>
        LET m == calls[Len(calls)].id
            c == ExtractContent(RawMessage(m))
        IN  /\ sent_message # None
            /\ sent_message.for_id = m
            /\ c # None
            /\ sent_message.To = c.from
            /\ sent_message.threadId = RawMessage(m).threadId
            /\ \A k \in Msgs \ {m} :
                   sent_message.threadId # RawMessage(k).threadId
            /\ sent_message.Subject = "Re: Auto-reply"
            /\ sent_message.text = generate_reply(chat_pipeline, c, backend)
            /\ pc = "mark" => m = messages[idx]

\* the second message of a batch has been sent, after the first, to its own
\* sender and thread
C16_Witness ==
    /\ pc = "mark" /\ idx = 2
    /\ Has(calls, "send", messages[1], TRUE)
    /\ sent_message # None
    /\ sent_message.for_id = messages[2]
    /\ sent_message.threadId = RawMessage(messages[2]).threadId
    /\ sent_message.To # ExtractContent(RawMessage(messages[1])).from

\* C17: a message none of whose modify calls has failed has at most one
\* successful send, over any number of cycles and any pattern of list, get
\* and send failures; a second successful send for a message comes only
\* after a modify call for it has failed.
C17_AtMostOneSend ==
    \A m \in Msgs :
        /\ m \notin markFailed => sends[m] <= 1
        /\ (m \notin markFailed /\ sends[m] = 1 /\ Outcome(calls, m) # "sent")
               => m \in acked
        /\ sends[m] > 1 => m \in markFailed

\* no modify call has failed; a message whose send failed in the first
\* cycle was sent and acknowledged in the second, another one was sent and
\* acknowledged in the first: one successful send each
C17_Witness ==
    \E m, k \in Msgs :
        /\ markFailed = {} /\ pc = "sleep" /\ listed = "ok"
        /\ last[m] = "send_failed" /\ Outcome(calls, m) = "sent_acked"
        /\ last[k] = "sent_acked" /\ Outcome(calls, k) = "none"
        /\ sends[m] = 1 /\ sends[k] = 1

\* C19 (as stated): a message whose extraction fails in a cycle gets no
\* generate, send or modify call in that cycle and stays unread and
\* unacknowledged; it is listed and attempted again in every later cycle.
C19_RetriedEveryCycle ==
    \A m \in Msgs :
        /\ Has(calls, "get", m, FALSE) =>
               /\ ~Called(calls, "send", m) /\ ~Called(calls, "modify", m)
               /\ m \in unread /\ m \notin acked
        /\ (prev[m] = "extract_failed" /\ pc \in InCycle) => m \in Range(messages)
        /\ (prev[m] = "extract_failed" /\ pc = "sleep") => Called(calls, "get", m)

\* C19 (amended): a message whose extraction fails in a cycle gets no
\* generate, send or modify call in that cycle and stays unread and
\* unacknowledged; it is part of the result of every later list call that
\* succeeds while extraction keeps failing, and has been attempted again
\* when that cycle reaches its sleep.
C19_RetriedEveryListing ==
    \A m \in Msgs :
        /\ Has(calls, "get", m, FALSE) =>
               /\ ~Called(calls, "generate", m)
               /\ ~Called(calls, "send", m) /\ ~Called(calls, "modify", m)
               /\ m \in unread /\ m \notin acked
        /\ (last[m] = "extract_failed" /\ Outcome(calls, m) = "none") =>
               (m \in unread /\ m \notin acked)
        /\ (last[m] = "extract_failed" /\ pc \in InCycle /\ listed = "ok") =>
               m \in Range(messages)
        /\ (last[m] = "extract_failed" /\ pc = "sleep" /\ listed = "ok") =>
               Called(calls, "get", m)

\* a message whose extraction failed in the first cycle has been listed
\* and has failed extraction again in the second, still unread
C19_Witness ==
    \E m \in Msgs :
        /\ last[m] = "extract_failed" /\ listed = "ok" /\ pc = "sleep"
        /\ Has(calls, "get", m, FALSE)
        /\ sends[m] = 0 /\ m \in unread

(* --------------------- run without a bound on cycles ------------------- *)
\* run as in Init, with the history counters switched off: the loop polls
\* for ever
InitLive ==
    /\ unread = Msgs
    /\ chat_pipeline \in BOOLEAN
    /\ pc = "poll"
    /\ cycle = 0
    /\ sleeps = 0
    /\ messages = <<>>
    /\ idx = 1
    /\ email_content = None
    /\ reply = <<>>
    /\ exit = "no"
    /\ stoppedAt = "none"
    /\ listed = "none"
    /\ calls = <<>>
    /\ prev = [m \in Msgs |-> "none"]
    /\ last = [m \in Msgs |-> "none"]
    /\ backend = "unused"
    /\ sends = [m \in Msgs |-> 0]
    /\ acked = {}
    /\ replied = {}
    /\ sent_message = None
    /\ markFailed = {}
    /\ recording = FALSE
    /\ input = None

\* the provider calls going well
ListOk == Poll /\ listed' = "ok"
FetchOk == Fetch /\ Extracted(email_content')
SendOk == Send /\ pc' = "mark"
MarkOk == Mark /\ messages[idx] \notin unread'

\* run does not stand still while it has not exited (it takes a step of
\* the loop unless it is cancelled), and each of list, get, send and modify
\* succeeds again and again when tried again and again
Fairness ==
    /\ WF_vars(Interrupt \/ Poll \/ Fetch \/ Generate \/ Send \/ Mark \/ Sleep)
    /\ SF_vars(ListOk)
    /\ SF_vars(FetchOk)
    /\ SF_vars(SendOk)
    /\ SF_vars(MarkOk)

SpecLive == InitLive /\ [][Next]_vars /\ Fairness

\* C18: while run has not exited, every unread message whose content can be
\* extracted is eventually replied to and acknowledged.
C18_EventuallyAcked ==
    \A m \in Msgs :
        (m \in unread /\ ExtractContent(RawMessage(m)) # None)
            ~> ((m \in replied /\ m \in acked) \/ pc = "exited")

\* in the loop without a bound on cycles every message of the mailbox has
\* been replied to and acknowledged, and the loop polls on
C18_Witness ==
    /\ ~recording /\ pc = "poll"
    /\ replied = Msgs /\ acked = Msgs /\ unread = {}

(* ------------------ the rule-based reply as a function ----------------- *)
\* the keyword lists with their replies, in the order of the if / elif chain
Categories ==
    <<[words |-> GreetingWords, reply |-> ReplyGreeting],
      [words |-> QuestionWords, reply |-> ReplyQuestion],
      [words |-> UrgentWords,   reply |-> ReplyUrgent],
      [words |-> ThanksWords,   reply |-> ReplyThanks],
      [words |-> MeetingWords,  reply |-> ReplyMeeting]>>

\* the positions of the categories with a keyword occurring in text
Matching(text) ==
    {i \in DOMAIN Categories : \E w \in Categories[i].words : Contains(text, w)}

\* the reply of the first matching category, the default reply when none
FirstMatchReply(text) ==
    IF Matching(text) = {} THEN ReplyDefault
    ELSE Categories[CHOOSE i \in Matching(text) :
                        \A j \in Matching(text) : i <= j].reply

\* C12: the rule-based reply is the reply of the first category, in the
\* order greeting, question, urgency, gratitude, scheduling, that has a
\* keyword occurring in the lower-cased subject and body, and the default
\* reply when none has; a content with greeting, help and urgency keywords
\* gets the greeting reply.
C12_FirstMatch ==
    (pc = "reply_done" /\ backend \in {"unused", "error"}) =>
        /\ reply = FirstMatchReply(Lower(email_content.subject \o <<" ">>
                                         \o email_content.body))
        /\ email_content.subject = SubjectHelloUrgent => reply = ReplyGreeting
        /\ (email_content.subject = SubjectThanks /\ email_content.body = <<>>)
               => reply = ReplyQuestion
        /\ (email_content.subject = SubjectThanksMeeting
              /\ email_content.body = NormalizeBody(BodyAsap))
               => reply = ReplyUrgent
        /\ (email_content.subject = SubjectThanksMeeting
              /\ email_content.body = NormalizeBody(BodyPlain))
               => reply = ReplyThanks
        /\ (email_content.subject = SubjectInvoice
              /\ email_content.body = NormalizeBody(BodyPlain))
               => reply = ReplyDefault

\* the content with greeting, help and urgency keywords got the greeting
\* reply from the rule-based generator
C12_Witness ==
    /\ pc = "reply_done" /\ ~chat_pipeline
    /\ email_content.subject = SubjectHelloUrgent
    /\ Cardinality(Matching(SimpleReplyText(email_content))) = 3
    /\ reply = ReplyGreeting

(* ---------------- get_email_content as a function ---------------------- *)
MaxBodyLen == 4

\* n copies of s
Rep(s, n) == [i \in 1 .. n * Len(s) |-> s[((i - 1) % Len(s)) + 1]]

\* every text of at most MaxBodyLen characters over a letter, a space and a
\* line end
ShortBodies == UNION {[1 .. n -> {"a", " ", "\n"}] : n \in 0 .. MaxBodyLen}

\* texts around and beyond the cap, with and without whitespace runs
LongBodies ==
    {Rep(<<"a">>, BodyCap - 1), Rep(<<"a">>, BodyCap), Rep(<<"a">>, BodyCap + 1),
     Rep(<<"a", " ">>, BodyCap),
     <<" ", "\n">> \o Rep(<<"a", "b", " ", "\t">>, BodyCap \div 3),
     Rep(<<"a">>, BodyCap - 1) \o <<" ", " ", "b", "c">>,
     Rep(<<"a">>, BodyCap) \o <<"\n", "b">>}

ExtractBodies == ShortBodies \cup LongBodies \cup {BodyHelp}

\* header lists: none, one of each, a name twice, neither name
ExtractHeaders ==
    {<<>>,
     <<[name |-> "From", value |-> "ann@example.org"],
       [name |-> "Subject", value |-> SubjectHi]>>,
     <<[name |-> "Subject", value |-> SubjectOld],
       [name |-> "From", value |-> "bob@example.org"],
       [name |-> "Subject", value |-> SubjectInvoice]>>,
     <<[name |-> "From", value |-> "ann@example.org"],
       [name |-> "To", value |-> "me@example.org"],
       [name |-> "From", value |-> "bob@example.org"]>>,
     <<[name |-> "To", value |-> "me@example.org"]>>}

\* the parts a payload can list
ExtractParts ==
    {[mimeType |-> "text/html", body |-> [data |-> B64(BodyHtml)]],
     [mimeType |-> "text/plain"],
     [mimeType |-> "text/plain", body |-> [size |-> 0]],
     [mimeType |-> "text/plain", body |-> [data |-> B64(BodyThanks)]],
     [mimeType |-> "text/plain", body |-> [data |-> B64(BodyMeeting)]],
     [mimeType |-> "text/plain", body |-> [data |-> BadB64]]}

\* part lists of length 0, 1 and 2
ExtractPartLists == UNION {[1 .. n -> ExtractParts] : n \in 0 .. 2}

\* payload['body'] when the payload has one
ExtractOwnBodies == {[size |-> 0], [data |-> B64(BodyHelp)], [data |-> BadB64]}

OneHeaderList ==
    <<[name |-> "From", value |-> "ann@example.org"],
      [name |-> "Subject", value |-> SubjectHi]>>

\* payloads: every body in a single-part payload, every header list, and
\* every part list with every own body
ExtractPayloads ==
    {[headers |-> OneHeaderList, body |-> [data |-> B64(t)]] : t \in ExtractBodies}
    \cup {[headers |-> h, body |-> [data |-> B64(BodyThanks)]] : h \in ExtractHeaders}
    \cup {[body |-> [data |-> B64(BodyThanks)]]}
    \cup {[headers |-> OneHeaderList, parts |-> ps] : ps \in ExtractPartLists}
    \cup {[headers |-> OneHeaderList, parts |-> ps, body |-> b] :
              ps \in ExtractPartLists, b \in ExtractOwnBodies}
    \cup {[headers |-> OneHeaderList, body |-> b] : b \in ExtractOwnBodies}
    \cup {[headers |-> OneHeaderList]}

\* the fetched messages get_email_content is applied to
ExtractInputs == {[id |-> 1, threadId |-> 101, payload |-> p] : p \in ExtractPayloads}

InitExtract ==
    /\ input \in ExtractInputs
    /\ pc = "extract_input"
    /\ chat_pipeline = FALSE
    /\ email_content = None
    /\ unread = Msgs
    /\ cycle = 0
    /\ sleeps = 0
    /\ messages = <<>>
    /\ idx = 1
    /\ reply = <<>>
    /\ exit = "no"
    /\ stoppedAt = "none"
    /\ listed = "none"
    /\ calls = <<>>
    /\ prev = [m \in Msgs |-> "none"]
    /\ last = [m \in Msgs |-> "none"]
    /\ backend = "unused"
    /\ sends = [m \in Msgs |-> 0]
    /\ acked = {}
    /\ replied = {}
    /\ sent_message = None
    /\ markFailed = {}
    /\ recording = TRUE

\* get_email_content from `payload = message['payload']` to its return
ApplyExtract ==
    /\ pc = "extract_input"
    /\ email_content' = ExtractContent(input)
    /\ pc' = "extract_done"
    /\ UNCHANGED <<unread, chat_pipeline, cycle, sleeps, messages, idx, reply,
                   exit, stoppedAt, listed, calls, prev, last, backend, sends,
                   acked, sent_message, markFailed, replied, recording, input>>

NextExtract == ApplyExtract

SpecExtract == InitExtract /\ [][NextExtract]_vars

\* the characters of t that are not whitespace, each with its position in t
Inked(t) ==
    LET at == [i \in 1 .. Len(t) |-> [pos |-> i, c |-> t[i]]]
        Ink(x) == x.c \notin WhiteSpace
    IN  SelectSeq(at, Ink)

\* ' '.join(t.split()) : the words of t, one space between two of them
Words(t) ==
    LET ink == Inked(t)
        gaps == [k \in 1 .. Len(ink) |->
                   Cardinality({j \in 2 .. k : ink[j].pos > ink[j - 1].pos + 1})]
        place == {k + gaps[k] : k \in 1 .. Len(ink)}
        len == IF ink = <<>> THEN 0 ELSE Len(ink) + gaps[Len(ink)]
    IN  [q \in 1 .. len |->
           IF q \in place
           THEN ink[CHOOSE k \in 1 .. Len(ink) : k + gaps[k] = q].c
           ELSE " "]

\* the decoded text of a single-part message
OwnText(message) == message.payload.body.data.bytes

SinglePart(message) ==
    /\ "parts" \notin DOMAIN message.payload
    /\ "body" \in DOMAIN message.payload
    /\ "data" \in DOMAIN message.payload.body
    /\ message.payload.body.data.enc = "base64url"

\* C13: the extracted body is the decoded text with every run of whitespace
\* collapsed to one space and leading and trailing whitespace removed, cut
\* to BodyCap characters: a longer normalised text gives exactly BodyCap
\* characters, a shorter one is unchanged, no body exceeds BodyCap.
C13_BodyNormalised ==
    (pc = "extract_done" /\ SinglePart(input)) =>
        LET clean == Words(OwnText(input))
            body  == email_content.body
        IN  /\ email_content # None
            /\ Len(body) <= BodyCap
            /\ Len(clean) > BodyCap =>
                   (Len(body) = BodyCap /\ body = SubSeq(clean, 1, BodyCap))
            /\ Len(clean) <= BodyCap => body = clean

\* a text of alternating letters and spaces, twice the cap long, was cut to
\* exactly the cap
C13_Witness ==
    /\ pc = "extract_done"
    /\ SinglePart(input)
    /\ OwnText(input) = Rep(<<"a", " ">>, BodyCap)
    /\ Len(email_content.body) = BodyCap
    /\ email_content.body[BodyCap] = " "

\* the value of the first header called name, dflt when there is none
FirstHeader(headers, name, dflt) ==
    IF \E i \in DOMAIN headers : headers[i].name = name
    THEN headers[CHOOSE i \in DOMAIN headers :
                     /\ headers[i].name = name
                     /\ \A j \in 1 .. i - 1 : headers[j].name # name].value
    ELSE dflt

\* C14 (as stated): the extracted subject is the value of the first header
\* named Subject and the extracted sender the value of the first header
\* named From; an absent header gives the empty string and extraction does
\* not fail.
C14_FirstHeaderWins ==
    (pc = "extract_done" /\ SinglePart(input)) =>
        /\ email_content # None
        /\ email_content.subject =
               FirstHeader(PayloadHeaders(input.payload), "Subject", <<>>)
        /\ email_content.from =
               FirstHeader(PayloadHeaders(input.payload), "From", "")

\* the data of the first part that is text/plain and has body data
FirstPlainData(parts) ==
    parts[CHOOSE i \in DOMAIN parts :
              /\ PartQualifies(parts[i])
              /\ \A j \in 1 .. i - 1 : ~PartQualifies(parts[j])].body.data

HasPlainPart(payload) ==
    /\ "parts" \in DOMAIN payload
    /\ \E i \in DOMAIN payload.parts : PartQualifies(payload.parts[i])

HasOwnData(payload) ==
    "body" \in DOMAIN payload /\ "data" \in DOMAIN payload.body

\* C15 (as stated): when the data of the selected plain-text part cannot be
\* decoded, extraction still returns a content, with an empty body and the
\* other fields as extracted.
C15_DecodeFailureGivesEmptyBody ==
    (/\ pc = "extract_done"
     /\ HasPlainPart(input.payload)
     /\ ~Decode(FirstPlainData(input.payload.parts)).ok) =>
        /\ email_content # None
        /\ email_content.body = <<>>
        /\ email_content.thread_id = input.threadId
        /\ email_content.message_id = input.id

\* C20 (as stated): the body comes from the first part that is text/plain
\* with data; when no part qualifies it comes from the payload's own body
\* data when that is present; it is empty only when neither has data.
\* (Stated for data that decodes.)
C20_PartThenOwnBody ==
    (pc = "extract_done" /\ email_content # None) =>
        LET payload == input.payload IN
        /\ HasPlainPart(payload) =>
               email_content.body =
                   NormalizeBody(FirstPlainData(payload.parts).bytes)
        /\ (~HasPlainPart(payload) /\ HasOwnData(payload)
              /\ Decode(payload.body.data).ok) =>
               email_content.body = NormalizeBody(payload.body.data.bytes)

\* the data the body is taken from: with a `parts` key the first qualifying
\* part and nothing else, without one the payload's own body data
ChosenData(payload) ==
    IF "parts" \in DOMAIN payload
    THEN IF HasPlainPart(payload) THEN FirstPlainData(payload.parts) ELSE None
    ELSE IF HasOwnData(payload) THEN payload.body.data ELSE None

\* C20 (amended): a payload with a `parts` key gives the body of its first
\* part that is text/plain with data, and an empty body when no part
\* qualifies, whatever the payload's own body holds; a payload without a
\* `parts` key gives its own body data when present, an empty body
\* otherwise. A returned content has the normalised text of that source.
C20_PartsKeyDecides ==
    pc = "extract_done" =>
        LET chosen == ChosenData(input.payload) IN
        /\ chosen = None =>
               (email_content # None /\ email_content.body = <<>>)
        /\ (chosen # None /\ Decode(chosen).ok) =>
               /\ email_content # None
               /\ email_content.body = NormalizeBody(chosen.bytes)
        /\ email_content # None => (chosen = None \/ Decode(chosen).ok)

\* a payload whose only part is text/html and whose own body has data:
\* the extracted body is empty
C20_Witness ==
    /\ pc = "extract_done"
    /\ "parts" \in DOMAIN input.payload
    /\ ~HasPlainPart(input.payload)
    /\ Len(input.payload.parts) = 1
    /\ HasOwnData(input.payload)
    /\ Decode(input.payload.body.data).ok
    /\ email_content # None
    /\ email_content.body = <<>>

====
